---- MODULE Spec2Model ----
(***************************************************************************)
(* Decentrablog (contract/src/lib.rs): the Blog contract as a state        *)
(* machine.  One action per change method; view methods are operators on   *)
(* the state.  A panicking call is reverted by the host, so it leaves the  *)
(* contract state as it was and only its outcome (ret) shows.              *)
(*                                                                         *)
(* post.rs, comment.rs and donation.rs are not part of the sources at      *)
(* hand; Post, Comment and DonationLog are modelled from the specification *)
(* and from what the inline tests of lib.rs assert about them.             *)
(* Titles, bodies of posts, messages and timestamps are payload that no    *)
(* operation reads back; they are left out of the records.                 *)
(***************************************************************************)
EXTENDS Integers, Sequences, FiniteSets, TLC

\* ---------------------------------------------------------------- bounds
MaxCalls == 4          \* calls per behaviour that change the state
MaxAmount == 2         \* the donation amount offered, besides 0
MaxPage == 3           \* page arguments offered: 0..MaxPage
MaxPageSize == 2       \* page_size arguments offered: 0..MaxPageSize

\* ------------------------------------------------------- program constants
MinCommentLen == 10

Accounts == {"alice_near", "bob_near"}
owner == "alice_near"

Amounts == {0, MaxAmount}
Balances == {MaxAmount - 1, MaxAmount}
Pages == 0..MaxPage
PageSizes == 0..MaxPageSize

\* a comment body: its number of characters and the number of bytes of its
\* UTF-8 encoding, one byte for an ASCII character, two for one of U+0080
\* to U+07FF
Ascii(n) == [chars |-> n, bytes |-> n]
TwoByte(n) == [chars |-> n, bytes |-> 2 * n]

Bodies == {Ascii(MinCommentLen - 1), Ascii(MinCommentLen),
           TwoByte(MinCommentLen \div 2)}

\* String::len(): the length in bytes
String_len(body) == body.bytes

\* outcomes of a call: a panic, or a return with its value
Abort == [tag |-> "abort"]
Returned(v) == [tag |-> "returned", val |-> v]
Unit == [tag |-> "unit"]

VARIABLES
    posts_keys,        \* posts: the UnorderedMap's key vector (enumeration order)
    posts,             \* posts: PostId -> Post, on the live ids
    comments,          \* comments: CommentId -> Comment
    user_posts,        \* user_posts: AccountId -> Vec<usize>
    next_post_id,
    next_comment_id,
    next_donation_id,
    promises,          \* transfers requested from the host, in request order;
                       \* the host settles them outside the contract, which
                       \* chains nothing to them that runs code
    ret,               \* outcome of the latest call: Abort, Unit or a value
    ncalls             \* calls made so far that changed the state

state == <<posts_keys, posts, comments, user_posts,
           next_post_id, next_comment_id, next_donation_id>>
vars == <<posts_keys, posts, comments, user_posts, next_post_id,
          next_comment_id, next_donation_id, promises, ret, ncalls>>

\* ----------------------------------------------------------------- helpers
Range(s) == {s[i] : i \in 1..Len(s)}

Min(a, b) == IF a < b THEN a ELSE b

IndexOf(s, x) == CHOOSE i \in 1..Len(s) : s[i] = x

\* Vec::retain(|c| c != x) / removal by value, order of the rest kept
RECURSIVE Without(_, _)
Without(s, x) ==
    IF s = <<>> THEN <<>>
    ELSE IF Head(s) = x THEN Without(Tail(s), x)
    ELSE <<Head(s)>> \o Without(Tail(s), x)

\* UnorderedMap::insert on the key vector: a new key goes to the end,
\* a present key keeps its place
um_insert(keys, k) == IF k \in Range(keys) THEN keys ELSE Append(keys, k)

\* UnorderedMap::remove without the key vector update
um_remove_keeps_key(keys, k) == keys

\* UnorderedMap::remove on the key vector: swap_remove, the last key takes
\* the removed key's place
um_remove(keys, k) ==
    IF k \notin Range(keys) THEN keys
    ELSE LET i == IndexOf(keys, k)
             n == Len(keys)
         IN  [j \in 1..(n - 1) |-> IF j = i THEN keys[n] ELSE keys[j]]

\* the map's values on a new domain
Restrict(f, S) == [x \in S |-> f[x]]

\* ------------------------------------------------------- Post (post.rs)
Post_new(id, author) ==
    [id |-> id, author |-> author, comments |-> <<>>,
     upvotes |-> {}, downvotes |-> {}, donation_logs |-> <<>>]

add_comment(post, comment_id) ==
    [post EXCEPT !.comments = Append(@, comment_id)]

remove_comment(post, comment_id) ==
    [post EXCEPT !.comments = Without(@, comment_id)]

add_upvote_keeps_downvote(post, voter) ==
    [post EXCEPT !.upvotes = @ \cup {voter}]

\* add_upvote that takes back the vote of one who has voted
add_upvote_toggle(post, voter) ==
    IF voter \in post.upvotes
    THEN [post EXCEPT !.upvotes = @ \ {voter}]
    ELSE [post EXCEPT !.upvotes = @ \cup {voter},
                      !.downvotes = @ \ {voter}]

add_upvote(post, voter) ==
    [post EXCEPT !.upvotes = @ \cup {voter}, !.downvotes = @ \ {voter}]

remove_upvote_of(post, voter) ==
    [post EXCEPT !.upvotes = @ \ {voter}]

add_downvote_keeps_upvote(post, voter) ==
    [post EXCEPT !.downvotes = @ \cup {voter}]

add_downvote(post, voter) ==
    [post EXCEPT !.downvotes = @ \cup {voter}, !.upvotes = @ \ {voter}]

remove_downvote_of(post, voter) ==
    [post EXCEPT !.downvotes = @ \ {voter}]

add_donation_logs(post, donation_log) ==
    [post EXCEPT !.donation_logs = Append(@, donation_log)]

\* tests::test_donation: one donation of 1000000 gives get_total_donation() = 1
get_total_donation(post) == Len(post.donation_logs)

\* ------------------------------------------------- Comment, DonationLog
Comment_new(id, body, author) == [id |-> id, body |-> body, author |-> author]

DonationLog_new(id, amount, donor, post_id) ==
    [id |-> id, amount |-> amount, donor |-> donor, post_id |-> post_id]

\* ------------------------------------------------------------------ Init
Init ==
    /\ posts_keys = <<>>
    /\ posts = <<>>
    /\ comments = <<>>
    /\ user_posts = [a \in {} |-> <<>>]
    /\ next_post_id = 0
    /\ next_comment_id = 0
    /\ next_donation_id = 0
    /\ promises = <<>>
    /\ ret = Unit
    /\ ncalls = 0

Live == DOMAIN posts

\* ids offered as arguments: every id handed out so far and the next one,
\* which names nothing yet
PostIds == 0..next_post_id
CommentIds == 0..next_comment_id

\* a call that panics: the host reverts every write of the call
Panic ==
    /\ ret' = Abort
    /\ UNCHANGED <<state, promises, ncalls>>

\* a counter that is left as it was
bump_forgotten(counter) == counter

\* self.next_post_id = self.next_post_id + 1, and the like
bump(counter) == counter + 1

\* the budget counts the calls that change the contract's state
Changed(old, new) == IF old = new THEN 0 ELSE 1

\* self.posts.insert(&post_id, &post)
posts_insert(post_id, post) ==
    /\ posts_keys' = um_insert(posts_keys, post_id)
    /\ posts' = [k \in Live \cup {post_id} |->
                    IF k = post_id THEN post ELSE posts[k]]

\* ------------------------------------------------------------ create_post
create_post(caller) ==
    /\ ret' = Returned(next_post_id)
    /\ ncalls < MaxCalls
    /\ LET post_id == next_post_id
           post == Post_new(post_id, caller)
           mine == IF caller \in DOMAIN user_posts
                   THEN user_posts[caller] ELSE <<>>
       IN  /\ posts_insert(post_id, post)
           /\ next_post_id' = bump(next_post_id)
           /\ user_posts' = [a \in DOMAIN user_posts \cup {caller} |->
                                IF a = caller THEN Append(mine, post_id)
                                ELSE user_posts[a]]
    /\ ncalls' = ncalls + 1
    /\ UNCHANGED <<comments, next_comment_id, next_donation_id, promises>>

\* ------------------------------------------------------------ delete_post
\* delete_post without the owner check
delete_post_by_anyone(caller, post_id) ==
    /\ ret' = Unit
    /\ ncalls + Changed(Live, Live \ {post_id}) <= MaxCalls
    /\ posts_keys' = um_remove(posts_keys, post_id)
    /\ posts' = Restrict(posts, Live \ {post_id})
    /\ ncalls' = ncalls + Changed(Live, Live \ {post_id})
    /\ UNCHANGED <<comments, user_posts, next_post_id, next_comment_id,
                   next_donation_id, promises>>

delete_post(caller, post_id) ==
    IF caller # owner THEN Panic
    ELSE /\ ret' = Unit
         /\ ncalls + Changed(Live, Live \ {post_id}) <= MaxCalls
         /\ posts_keys' = um_remove(posts_keys, post_id)
         /\ posts' = Restrict(posts, Live \ {post_id})
         /\ ncalls' = ncalls + Changed(Live, Live \ {post_id})
         /\ UNCHANGED <<comments, user_posts, next_post_id, next_comment_id,
                        next_donation_id, promises>>

\* ------------------------------------------------------------------ votes
\* upvote that edits the fetched copy and does not write it back
upvote_unsaved(caller, post_id) ==
    IF post_id \notin Live THEN Panic
    ELSE /\ ret' = Unit
         /\ ncalls < MaxCalls
         /\ ncalls' = ncalls + 1
         /\ UNCHANGED <<state, promises>>

upvote(caller, post_id) ==
    IF post_id \notin Live THEN Panic
    ELSE LET post == add_upvote(posts[post_id], caller)
         IN  /\ ret' = Unit
             /\ ncalls + Changed(posts[post_id], post) <= MaxCalls
             /\ posts_insert(post_id, post)
             /\ ncalls' = ncalls + Changed(posts[post_id], post)
             /\ UNCHANGED <<comments, user_posts, next_post_id,
                            next_comment_id, next_donation_id, promises>>

remove_upvote(caller, post_id) ==
    IF post_id \notin Live THEN Panic
    ELSE LET post == remove_upvote_of(posts[post_id], caller)
         IN  /\ ret' = Unit
             /\ ncalls + Changed(posts[post_id], post) <= MaxCalls
             /\ posts_insert(post_id, post)
             /\ ncalls' = ncalls + Changed(posts[post_id], post)
             /\ UNCHANGED <<comments, user_posts, next_post_id,
                            next_comment_id, next_donation_id, promises>>

downvote(caller, post_id) ==
    IF post_id \notin Live THEN Panic
    ELSE LET post == add_downvote(posts[post_id], caller)
         IN  /\ ret' = Unit
             /\ ncalls + Changed(posts[post_id], post) <= MaxCalls
             /\ posts_insert(post_id, post)
             /\ ncalls' = ncalls + Changed(posts[post_id], post)
             /\ UNCHANGED <<comments, user_posts, next_post_id,
                            next_comment_id, next_donation_id, promises>>

remove_downvote(caller, post_id) ==
    IF post_id \notin Live THEN Panic
    ELSE LET post == remove_downvote_of(posts[post_id], caller)
         IN  /\ ret' = Unit
             /\ ncalls + Changed(posts[post_id], post) <= MaxCalls
             /\ posts_insert(post_id, post)
             /\ ncalls' = ncalls + Changed(posts[post_id], post)
             /\ UNCHANGED <<comments, user_posts, next_post_id,
                            next_comment_id, next_donation_id, promises>>

\* ---------------------------------------------------------- create_comment
create_comment(caller, post_id, body) ==
    IF post_id \notin Live \/ String_len(body) < MinCommentLen THEN Panic
    ELSE /\ ret' = Unit
         /\ ncalls < MaxCalls
         /\ LET comment == Comment_new(next_comment_id, body, caller)
            IN  /\ posts_insert(post_id, add_comment(posts[post_id], comment.id))
                /\ comments' = [k \in DOMAIN comments \cup {comment.id} |->
                                   IF k = comment.id THEN comment
                                   ELSE comments[k]]
         /\ next_comment_id' = bump(next_comment_id)
         /\ ncalls' = ncalls + 1
         /\ UNCHANGED <<user_posts, next_post_id, next_donation_id, promises>>

\* ---------------------------------------------------------- delete_comment
\* what delete_comment writes: post.remove_comment(comment_id) edits the
\* copy that self.posts.get returned, and the copy is dropped
delete_comment_write(post_id, comment_id) ==
    LET post == remove_comment(posts[post_id], comment_id)
    IN  UNCHANGED <<posts_keys, posts>>

delete_comment(caller, post_id, comment_id) ==
    IF \/ caller # owner
       \/ post_id \notin Live
       \/ comment_id \notin DOMAIN comments
    THEN Panic
    ELSE /\ ret' = Unit
         /\ delete_comment_write(post_id, comment_id)
         /\ UNCHANGED <<comments, user_posts, next_post_id, next_comment_id,
                        next_donation_id, promises, ncalls>>

\* ------------------------------------------------------------------ donate
\* save_to_donation_log that builds the record and does not write the
\* post back
save_to_donation_log_unsaved(caller, post_id, amount) ==
    /\ next_comment_id' = bump(next_comment_id)
    /\ next_donation_id' = next_donation_id
    /\ UNCHANGED <<posts_keys, posts>>

\* save_to_donation_log: the record takes next_donation_id, and the counter
\* the call advances is next_comment_id
save_to_donation_log(caller, post_id, amount) ==
    LET donation_log ==
            DonationLog_new(next_donation_id, amount, caller, post_id)
    IN  /\ next_comment_id' = bump(next_comment_id)
        /\ next_donation_id' = next_donation_id
        /\ posts_insert(post_id, add_donation_logs(posts[post_id], donation_log))

\* Promise::new(author).transfer(amount): the transfer asked of the host
transfer(receiver, amount) ==
    promises' = Append(promises,
                       [receiver |-> receiver, amount |-> amount])

\* donate without the balance check
donate_any_balance(caller, post_id, amount, balance) ==
    IF post_id \notin Live \/ amount < 1 THEN Panic
    ELSE /\ ret' = Unit
         /\ ncalls < MaxCalls
         /\ transfer(posts[post_id].author, amount)
         /\ save_to_donation_log(caller, post_id, amount)
         /\ ncalls' = ncalls + 1
         /\ UNCHANGED <<comments, user_posts, next_post_id>>

\* donate: .then(self.save_to_donation_log(..)) evaluates its argument, an
\* ordinary method call, while the promise chain is being built
donate(caller, post_id, amount, balance) ==
    IF post_id \notin Live \/ amount < 1 \/ balance < amount THEN Panic
    ELSE /\ ret' = Unit
         /\ ncalls < MaxCalls
         /\ transfer(posts[post_id].author, amount)
         /\ save_to_donation_log(caller, post_id, amount)
         /\ ncalls' = ncalls + 1
         /\ UNCHANGED <<comments, user_posts, next_post_id>>

\* the host settles the oldest requested transfer, with success or with
\* failure: what donate chained to it is the empty Promise::new(donor)
\* that save_to_donation_log returned, so no code of the contract runs and
\* neither outcome reaches its state
transfer_settles(outcome) ==
    /\ promises # <<>>
    /\ promises' = Tail(promises)
    /\ UNCHANGED <<state, ret, ncalls>>

\* ------------------------------------------------------------------- views
get_total_posts == Len(posts_keys)

get_next_post_id == next_post_id

get_post(post_id) ==
    IF post_id \in Live THEN Returned(posts[post_id]) ELSE Returned("None")

\* self.posts.values(): the values in the order of the key vector
posts_values == [i \in 1..Len(posts_keys) |-> posts[posts_keys[i]]]

get_posts == posts_values

\* take(m) with the skip(n) left out
SkipTake_from_first(s, n, m) == SubSeq(s, 1, Min(m, Len(s)))

\* Iterator::skip(n).take(m)
SkipTake(s, n, m) == SubSeq(s, n + 1, Min(n + m, Len(s)))

\* Iterator::skip(n).take(m) for a wrapped m = 2^w - d, w the width of usize
\* and d < 2^w - Len(s): it takes all that skip(n) leaves
SkipTakeWrapped(s, n) == SubSeq(s, n + 1, Len(s))

\* the results get_paging_posts can return: one, except where end - start
\* underflows usize, which traps in a build with overflow checks and wraps
\* in a build without them
get_paging_posts(page, page_size) ==
    IF page_size <= 0 \/ page <= 0 THEN {Abort}
    ELSE LET start == (page - 1) * page_size
             total_posts == Len(posts_keys)
             end == IF start + page_size > total_posts THEN total_posts
                    ELSE start + page_size
         IN  IF end < start
             THEN {Abort, Returned(SkipTakeWrapped(posts_values, start))}
             ELSE {Returned(SkipTake(posts_values, start, end - start))}

\* get_user_posts: posts.get(&post_id).unwrap() for each id of the list
get_user_posts(user_id) ==
    LET ids == IF user_id \in DOMAIN user_posts THEN user_posts[user_id]
               ELSE <<>>
    IN  IF Len(ids) = 0 THEN Returned(<<>>)
        ELSE IF \E i \in 1..Len(ids) : ids[i] \notin Live THEN Abort
        ELSE Returned([i \in 1..Len(ids) |-> posts[ids[i]]])

get_total_comments == Cardinality(DOMAIN comments)

get_comment(comment_id) ==
    IF comment_id \in DOMAIN comments THEN Returned(comments[comment_id])
    ELSE Abort

get_comments(post_id) ==
    IF post_id \notin Live THEN Abort
    ELSE LET ids == posts[post_id].comments
         IN  IF \E i \in 1..Len(ids) : ids[i] \notin DOMAIN comments THEN Abort
             ELSE Returned([i \in 1..Len(ids) |-> comments[ids[i]]])

\* the loop of get_paging_comments: every id of the list is visited from the
\* first, and one is pushed while start < end
RECURSIVE paging_loop(_, _, _)
paging_loop(ids, start, end) ==
    IF ids = <<>> THEN <<>>
    ELSE IF start < end
         THEN <<comments[Head(ids)]>> \o paging_loop(Tail(ids), start + 1, end)
         ELSE paging_loop(Tail(ids), start, end)

get_paging_comments(post_id, page, page_size) ==
    IF page_size <= 0 \/ page <= 0 \/ post_id \notin Live THEN Abort
    ELSE LET ids == posts[post_id].comments
             start == (page - 1) * page_size
             end == IF start + page_size > Len(ids) THEN Len(ids)
                    ELSE start + page_size
         IN  Returned(paging_loop(ids, start, end))

get_post_total_comments(post_id) ==
    IF post_id \notin Live THEN Abort
    ELSE Returned(Len(posts[post_id].comments))

get_votes_statistics(post_id) ==
    IF post_id \notin Live THEN Abort
    ELSE Returned(<<Cardinality(posts[post_id].upvotes),
                    Cardinality(posts[post_id].downvotes)>>)

get_user_vote_status(post_id, user_id) ==
    IF post_id \notin Live THEN Abort
    ELSE LET upvotes == user_id \in posts[post_id].upvotes
             downvotes == user_id \in posts[post_id].downvotes
         IN  IF upvotes /\ ~downvotes THEN Returned("Upvoted")
             ELSE IF ~upvotes /\ downvotes THEN Returned("Downvoted")
             ELSE Returned("None")

\* -------------------------------------------------------------------- Next
Next ==
    \/ \E c \in Accounts : create_post(c)
    \/ \E c \in Accounts, p \in PostIds, k \in CommentIds : delete_comment(c, p, k)
    \/ \E c \in Accounts, p \in PostIds : delete_post(c, p)
    \/ \E c \in Accounts, p \in PostIds, b \in Bodies : create_comment(c, p, b)
    \/ \E c \in Accounts, p \in PostIds : upvote(c, p)
    \/ \E c \in Accounts, p \in PostIds : remove_upvote(c, p)
    \/ \E c \in Accounts, p \in PostIds : downvote(c, p)
    \/ \E c \in Accounts, p \in PostIds : remove_downvote(c, p)
    \/ \E c \in Accounts, p \in PostIds, a \in Amounts, b \in Balances :
           donate(c, p, a, b)

Spec == Init /\ [][Next]_vars

\* the contract's calls together with the host's settling of transfers
TransferOutcomes == {"succeeded", "failed"}

NextWithHost ==
    \/ Next
    \/ \E o \in TransferOutcomes : transfer_settles(o)

SpecWithHost == Init /\ [][NextWithHost]_vars

\* ================================================================= claims
SomeCreatePost == \E c \in Accounts : create_post(c)
SomeDeletePost == \E c \in Accounts, p \in PostIds : delete_post(c, p)

\* C1: create_post returns the value next_post_id had before the call and
\* advances it by one; delete_post never changes next_post_id; the id a new
\* post takes is above every id handed out before, so ids strictly increase
\* and none is assigned twice, also after the post holding it was deleted.
C1_PostIdsNeverReused ==
    [][ /\ \A c \in Accounts :
             create_post(c) =>
                 /\ ret' = Returned(next_post_id)
                 /\ next_post_id' = next_post_id + 1
                 /\ DOMAIN posts' = Live \cup {ret'.val}
                 /\ posts'[ret'.val].id = ret'.val
        /\ next_post_id' = next_post_id \/ ~SomeDeletePost
        /\ next_post_id' >= next_post_id
        /\ \A p \in Live : p < next_post_id
        /\ \A p \in DOMAIN posts' : p \in Live \/ p = next_post_id
      ]_vars

\* create, delete, create, create: two posts, the next id is 3
C1_Witness ==
    /\ next_post_id = 3
    /\ Live = {1, 2}
    /\ get_total_posts = 2

\* C2: get_total_posts() is the number of live posts (created and not yet
\* deleted): it starts at 0, create_post adds one, the owner's delete_post
\* of a live id takes one away and removes that id, a delete_post of an id
\* that is not live leaves the count and the post store as they were, and
\* no other call changes it.
C2_TotalPostsCountsLive ==
    [][ /\ get_total_posts = Cardinality(Live)
        /\ Range(posts_keys) = Live
        /\ next_post_id = 0 => get_total_posts = 0
        /\ get_total_posts' = get_total_posts + 1 \/ ~SomeCreatePost
        /\ \A c \in Accounts, p \in PostIds :
             delete_post(c, p) =>
                 IF c = owner /\ p \in Live
                 THEN /\ get_total_posts' = get_total_posts - 1
                      /\ DOMAIN posts' = Live \ {p}
                 ELSE /\ get_total_posts' = get_total_posts
                      /\ posts' = posts
                      /\ posts_keys' = posts_keys
        /\ \/ get_total_posts' = get_total_posts
           \/ SomeCreatePost
           \/ SomeDeletePost
      ]_vars

\* the owner deleted post 0 of two posts
C2_Witness ==
    /\ next_post_id = 2
    /\ Live = {1}
    /\ get_total_posts = 1
    /\ ret = Unit

C5_DeleteCommentRemovesId ==
    [][ \A p \in Live, k \in CommentIds :
            (delete_comment(owner, p, k) /\ k \in Range(posts[p].comments)) =>
                /\ p \in DOMAIN posts'
                /\ k \notin Range(posts'[p].comments)
                /\ Len(posts'[p].comments) = Len(posts[p].comments) - 1
                /\ posts'[p].comments = Without(posts[p].comments, k)
      ]_vars

\* the slice [start, end) of a sequence, 0-based as in the source
Slice(s, start, end) == SubSeq(s, start + 1, end)

\* C6: for every live post with comment ids c and page > 0, page_size > 0,
\* get_paging_comments returns the comments of c[start, end) in order, with
\* start = (page-1)*page_size and end = min(start+page_size, len(c)), and
\* the empty sequence when start >= len(c).
C6_PagingCommentsSlice ==
    \A p \in Live, page \in Pages \ {0}, page_size \in PageSizes \ {0} :
        LET c == posts[p].comments
            start == (page - 1) * page_size
            end == Min(start + page_size, Len(c))
            ids == Slice(c, start, end)
        IN  get_paging_comments(p, page, page_size) =
                Returned([i \in 1..Len(ids) |-> comments[ids[i]]])

\* C7: for page > 0 and page_size > 0 with (page-1)*page_size >= the number
\* of posts, get_paging_posts returns the empty sequence and does not abort.
C7_PagingPostsPastEnd ==
    \A page \in Pages \ {0}, page_size \in PageSizes \ {0} :
        (page - 1) * page_size >= get_total_posts =>
            get_paging_posts(page, page_size) = {Returned(<<>>)}

\* the donation records held by the live posts, each with its place
DonationPlaces ==
    UNION {{<<p, i>> : i \in 1..Len(posts[p].donation_logs)} : p \in Live}

\* C8: any two donation records carry different ids.
C8_DonationIdsUnique ==
    \A x, y \in DonationPlaces :
        x # y => posts[x[1]].donation_logs[x[2]].id
                 # posts[y[1]].donation_logs[y[2]].id

RECURSIVE SumAmounts(_)
SumAmounts(logs) ==
    IF logs = <<>> THEN 0 ELSE Head(logs).amount + SumAmounts(Tail(logs))

\* C9: a post's total_donated (get_total_donation) equals the sum of the
\* amounts of the records in its donations; after one donation of N it is N.
C9_TotalDonationIsSum ==
    \A p \in Live :
        get_total_donation(posts[p]) = SumAmounts(posts[p].donation_logs)

\* C10: a donate call that passes validation requests the transfer and does
\* not itself append the record: right after it the post's donations are as
\* they were before it.
C10_DonateDefersRecord ==
    [][ \A c \in Accounts, p \in Live, a \in Amounts, b \in Balances :
            (donate(c, p, a, b) /\ a >= 1 /\ b >= a) =>
                /\ Len(promises') = Len(promises) + 1
                /\ posts'[p].donation_logs = posts[p].donation_logs
      ]_vars

\* C11: every donate call that passes validation appends exactly one
\* record with that amount, donor and post_id to the post's donations and
\* touches no other post; the host's settling of the transfer, with either
\* outcome, adds no record and takes none away.
C11_DonateRecordsOnce ==
    [][ /\ \A c \in Accounts, p \in Live, a \in Amounts, b \in Balances :
             (a >= 1 /\ b >= a /\ donate(c, p, a, b)) =>
                 /\ Len(posts'[p].donation_logs)
                        = Len(posts[p].donation_logs) + 1
                 /\ SubSeq(posts'[p].donation_logs, 1,
                           Len(posts[p].donation_logs))
                        = posts[p].donation_logs
                 /\ LET r == posts'[p].donation_logs[
                                 Len(posts'[p].donation_logs)]
                    IN  r.amount = a /\ r.donor = c /\ r.post_id = p
                 /\ \A q \in Live \ {p} : posts'[q] = posts[q]
        /\ \A o \in TransferOutcomes :
             transfer_settles(o) => posts' = posts
      ]_vars

\* a donation's record is in place and its transfer has been settled
C11_Witness ==
    /\ promises = <<>>
    /\ \E p \in Live : Len(posts[p].donation_logs) = 1

\* C12: donate aborts with posts, comments, user_posts and the three
\* counters unchanged, and without requesting a transfer, whenever post_id
\* is not a live post, or amount < 1, or the balance is less than amount.
C12_DonateRejects ==
    [][ \/ /\ ret' = Abort
           /\ UNCHANGED <<state, promises>>
        \/ \A p \in PostIds, a \in Amounts, b \in Balances :
               (p \notin Live \/ a < 1 \/ b < a) =>
                   \A c \in Accounts : ~donate(c, p, a, b)
      ]_vars

\* a donation of more than the balance was turned down on a post that has
\* no donation yet
C12_Witness ==
    /\ ret = Abort
    /\ promises = <<>>
    /\ next_comment_id = 0
    /\ Live = {0}
    /\ posts[0].donation_logs = <<>>

\* C13: create_comment aborts with no state change when the body is
\* shorter than 10 characters or post_id is not a live post; with a live
\* post and a body of 10 characters or more it stores the comment under the
\* current next_comment_id, appends that id to the end of the post's
\* comment_ids and advances next_comment_id by one.
C13_CreateComment ==
    [][ \A c \in Accounts, p \in PostIds, b \in Bodies :
            create_comment(c, p, b) =>
                IF b.chars < MinCommentLen \/ p \notin Live
                THEN ret' = Abort /\ UNCHANGED state
                ELSE /\ DOMAIN comments' = DOMAIN comments \cup {next_comment_id}
                     /\ comments'[next_comment_id].id = next_comment_id
                     /\ posts'[p].comments
                            = Append(posts[p].comments, next_comment_id)
                     /\ next_comment_id' = next_comment_id + 1
      ]_vars

\* C14: delete_post and delete_comment called by anyone but the owner abort
\* with posts, comments, user_posts and the counters unchanged; a post leaves
\* the store, or a comment id leaves a stored post, only in a call of the
\* owner.
C14_OwnerOnlyDeletes ==
    [][ /\ \A c \in Accounts \ {owner}, p \in PostIds :
             \/ ret' = Abort /\ UNCHANGED <<state, promises>>
             \/ /\ ~delete_post(c, p)
                /\ \A k \in CommentIds : ~delete_comment(c, p, k)
        /\ \/ Live \subseteq DOMAIN posts'
           \/ \E p \in PostIds : delete_post(owner, p)
        /\ \A p \in Live \cap DOMAIN posts' :
             \/ Range(posts[p].comments) \subseteq Range(posts'[p].comments)
             \/ \E k \in CommentIds : delete_comment(owner, p, k)
      ]_vars

\* bob_near wrote the only post and his delete_post was turned down
C14_Witness ==
    /\ ret = Abort
    /\ Live = {0}
    /\ posts[0].author = "bob_near"
    /\ next_post_id = 1

\* the pages 1..k of get_paging_posts(_, page_size), one after the other
RECURSIVE ConcatPages(_, _)
ConcatPages(k, page_size) ==
    IF k = 0 THEN <<>>
    ELSE ConcatPages(k - 1, page_size)
             \o (CHOOSE r \in get_paging_posts(k, page_size) : r # Abort).val

\* C15: for every page_size > 0, each get_paging_posts(page, page_size)
\* with page > 0 returns at most page_size posts, and the pages 1, 2, 3, ...
\* one after the other are exactly get_posts, also after deletions.
C15_PagesPartitionPosts ==
    \A page_size \in 1..MaxPageSize :
        LET last == get_total_posts + 2
        IN  /\ \A page \in 1..last :
                 \A r \in get_paging_posts(page, page_size) :
                     r # Abort /\ Len(r.val) <= page_size
            /\ ConcatPages(last, page_size) = get_posts

\* C16: after n create_post calls and no delete_post, get_paging_posts(page,
\* size) with (page - 1) * size < n returns the posts with ids
\* (page - 1) * size .. min(page * size, n) - 1, in increasing order.
C16_PagingPostsInIdOrder ==
    LET n == next_post_id
    IN  Live = 0..(n - 1) =>
            \A page \in 1..MaxPage, size \in 1..MaxPageSize :
                LET first == (page - 1) * size
                    last == Min(page * size, n) - 1
                IN  first < n =>
                        /\ get_paging_posts(page, size) =
                               {Returned([i \in 1..(last - first + 1) |->
                                              posts[first + i - 1]])}
                        /\ \A id \in first..last : posts[id].id = id

\* three posts and no deletion: page 2 of size 2 is the post with id 2
C16_Witness ==
    /\ next_post_id = 3
    /\ Live = {0, 1, 2}
    /\ \E r \in get_paging_posts(2, 2) :
           r # Abort /\ Len(r.val) = 1 /\ r.val[1].id = 2

\* C17: upvote by an identity that is already among the post's upvoters
\* changes nothing, and so does downvote by one already among its
\* downvoters; get_votes_statistics counts the identity once.
C17_VoteIdempotent ==
    [][ \A c \in Accounts, p \in Live :
            /\ \/ c \notin posts[p].upvotes
               \/ /\ UNCHANGED state
                  /\ get_votes_statistics(p).val[1]
                         = Cardinality(posts[p].upvotes)
               \/ ~upvote(c, p)
            /\ \/ c \notin posts[p].downvotes
               \/ /\ UNCHANGED state
                  /\ get_votes_statistics(p).val[2]
                         = Cardinality(posts[p].downvotes)
               \/ ~downvote(c, p)
      ]_vars

\* bob_near is the one upvoter of a post after an upvote that followed a
\* call turned down
C17_Witness ==
    /\ ret = Unit
    /\ ncalls = 2
    /\ \E p \in Live :
           /\ posts[p].upvotes = {"bob_near"}
           /\ get_votes_statistics(p) = Returned(<<1, 0>>)

\* C18: comment ids are unique: each stored comment carries the id it is
\* stored under, below next_comment_id; an id is in the comment_ids of at
\* most one live post and at most once there; a post's comment_ids are in
\* creation order.
C18_CommentIdsUnique ==
    /\ \A k \in DOMAIN comments : comments[k].id = k /\ k < next_comment_id
    /\ \A p \in Live :
           /\ Range(posts[p].comments) \subseteq DOMAIN comments
           /\ \A i, j \in 1..Len(posts[p].comments) :
                  i < j => posts[p].comments[i] < posts[p].comments[j]
    /\ \A p, q \in Live :
           p # q => Range(posts[p].comments) \cap Range(posts[q].comments) = {}

\* three comments on the first post of a fresh contract get 0, 1, 2
C18_Witness ==
    /\ 0 \in Live
    /\ posts[0].comments = <<0, 1, 2>>
    /\ DOMAIN comments = {0, 1, 2}
    /\ next_comment_id = 3

\* C19: next_comment_id is the number of create_comment calls that
\* succeeded; no other operation changes it.
C19_NextCommentIdCountsComments ==
    next_comment_id = get_total_comments

\* C20: every id in user_posts[a] is the id of a live post, so
\* get_user_posts(a) never aborts.
C20_UserPostsLive ==
    \A a \in Accounts :
        /\ a \in DOMAIN user_posts => Range(user_posts[a]) \subseteq Live
        /\ get_user_posts(a) # Abort
====
